---- MODULE Spec2Model ----
(***************************************************************************)
(* A model of package diff (src/diff/diff.go): Compute / Engine.Compute    *)
(* and the recursive comparison of two Go values by reflection.            *)
(*                                                                         *)
(* A Go value is modelled together with its type.  An interface{} value is *)
(* a pair <<type, value>>; the nil interface is <<"nil">>.  For a type t,  *)
(* the raw value is                                                        *)
(*   int, uint      a natural number                                       *)
(*   bool           a BOOLEAN                                              *)
(*   string         a string                                               *)
(*   float64        an integer, counting units of 0.0000005                *)
(*   map, complex   an opaque value (the engine never looks inside)        *)
(*   slice          the sequence of its elements                           *)
(*   pointer        <<>> when nil, else <<a, v>>: the pointee v, and a tag *)
(*                  a that tells apart two pointers to equal pointees      *)
(*   struct         the tuple of its field values, in declaration order    *)
(***************************************************************************)
EXTENDS Integers, Sequences, FiniteSets, TLC

VARIABLES pc, e, x, y, delta, err

vars == <<pc, e, x, y, delta, err>>

-----------------------------------------------------------------------------
(* Bounds of the input universe.                                           *)

MaxInt == 1

MaxLen == 2

MaxFloat == 2

(* Tolerance = 0.000001, in units of 0.0000005.                            *)
Tolerance == 2

StrVals == {"", "a", " "}

ExcludeLists == {<<>>, <<"StringVal">>, <<"a">>, <<"IntVal", "Bar">>, <<"IntList", "BarPtr", "Time">>}

-----------------------------------------------------------------------------
(* The type universe: what reflect.Type answers for each type.             *)

StructTypes == {"Basic", "Num", "Bar", "hidden", "Nest", "IntLists", "BarLists", "Ptrs", "Opaque", "struct{StringVal string}"}

InputTypes == StructTypes \cup {"int", "Ints", "*Bar"}

Kind(t) ==
  CASE t \in StructTypes -> "struct"
    [] t \in {"[]int", "[]Bar", "Ints"} -> "slice"
    [] t \in {"*Bar", "*int"} -> "ptr"
    [] t = "map[string]int" -> "map"
    [] t = "complex128" -> "complex"
    [] t \in {"float64"} -> "float"
    [] OTHER -> t

Elem(t) ==
  CASE t \in {"[]int", "Ints", "*int"} -> "int"
    [] t \in {"[]Bar", "*Bar"} -> "Bar"

F(name, type) == [Name |-> name, Type |-> type]

Fields(t) ==
  CASE t = "Basic" -> <<F("IntVal", "int"), F("UintVal", "uint"), F("BoolVal", "bool"), F("StringVal", "string")>>
    [] t = "Num" -> <<F("FloatVal", "float64"), F("b", "int")>>
    [] t \in {"Bar", "struct{StringVal string}"} -> <<F("StringVal", "string")>>
    [] t = "hidden" -> <<F("a", "string"), F("b", "string")>>
    [] t = "Nest" -> <<F("Bar", "Bar"), F("Time", "hidden")>>
    [] t = "IntLists" -> <<F("IntList", "[]int")>>
    [] t = "BarLists" -> <<F("BarList", "[]Bar")>>
    [] t = "Ptrs" -> <<F("BarPtr", "*Bar"), F("IntPtr", "*int")>>
    [] t = "Opaque" -> <<F("M", "map[string]int"), F("C", "complex128"), F("IntVal", "int")>>

NumField(t) == Len(Fields(t))

(* A defined (named) type, as opposed to a type literal.                   *)
HasName(t) == t \notin {"struct{StringVal string}", "[]int", "[]Bar", "*Bar", "*int", "map[string]int"}

Underlying(t) ==
  CASE t = "Bar" -> "struct{StringVal string}"
    [] t = "Ints" -> "[]int"
    [] OTHER -> t

AssignableTo(tx, ty) ==
  \/ tx = ty
  \/ /\ ~(HasName(tx) /\ HasName(ty))
     /\ Underlying(tx) = Underlying(ty)

FieldIndex(t, name) == CHOOSE i \in 1..NumField(t) : Fields(t)[i].Name = name

FieldByName(t, v, name) == v[FieldIndex(t, name)]

-----------------------------------------------------------------------------
(* The values of each type, within the bounds.                             *)

RECURSIVE Values(_), StructVals(_)

Values(t) ==
  CASE Kind(t) \in {"int", "uint"} -> 0..MaxInt
    [] Kind(t) = "bool" -> BOOLEAN
    [] Kind(t) = "string" -> StrVals
    [] Kind(t) = "float" -> (0 - MaxFloat)..MaxFloat
    [] Kind(t) = "map" -> {("k" :> 0), ("k" :> 1)}
    [] Kind(t) = "complex" -> {<<0, 0>>, <<0, 1>>}
    [] Kind(t) = "slice" -> UNION {[1..n -> Values(Elem(t))] : n \in 0..MaxLen}
    [] Kind(t) = "ptr" -> {<<>>} \cup {<<a, v>> : a \in {1, 2}, v \in Values(Elem(t))}
    [] Kind(t) = "struct" -> StructVals(Fields(t))

StructVals(fs) ==
  IF fs = <<>> THEN {<<>>}
  ELSE {<<v>> \o rest : v \in Values(Head(fs).Type), rest \in StructVals(Tail(fs))}

NilVal == <<"nil">>

Iface(t, v) == <<t, v>>

Inputs == {NilVal} \cup UNION {{Iface(t, v) : v \in Values(t)} : t \in InputTypes}

TypeOf(i) == i[1]

ValOf(i) == i[2]

-----------------------------------------------------------------------------
(* Strings.                                                                *)

Upper == <<"A", "B", "C", "D", "E", "F", "G", "H", "I", "J", "K", "L", "M", "N", "O", "P", "Q", "R", "S", "T", "U", "V", "W", "X", "Y", "Z">>

Lower == <<"a", "b", "c", "d", "e", "f", "g", "h", "i", "j", "k", "l", "m", "n", "o", "p", "q", "r", "s", "t", "u", "v", "w", "x", "y", "z">>

ToLower(c) == IF \E i \in 1..Len(Upper) : Upper[i] = c THEN Lower[CHOOSE i \in 1..Len(Upper) : Upper[i] = c] ELSE c

(* fieldName[0] as a string, for the field names of the type universe.     *)
FirstLetter(fieldName) ==
  CASE fieldName \in {"IntVal", "IntList", "IntPtr"} -> "I"
    [] fieldName = "UintVal" -> "U"
    [] fieldName \in {"BoolVal", "Bar", "BarList", "BarPtr"} -> "B"
    [] fieldName = "StringVal" -> "S"
    [] fieldName = "FloatVal" -> "F"
    [] fieldName = "Time" -> "T"
    [] fieldName = "M" -> "M"
    [] fieldName = "C" -> "C"
    [] fieldName = "a" -> "a"
    [] fieldName = "b" -> "b"

Digits == <<"0", "1", "2", "3", "4", "5", "6", "7", "8", "9">>

RECURSIVE Itoa(_)

Itoa(i) ==
  IF i < 0 THEN "-" \o Itoa(0 - i)
  ELSE IF i < 10 THEN Digits[i + 1]
  ELSE Itoa(i \div 10) \o Digits[(i % 10) + 1]

RECURSIVE Sprint(_, _), SprintFields(_, _, _)

(* fmt.Sprint of a value: the %v rendering.                                *)
Sprint(t, v) ==
  CASE Kind(t) = "string" -> v
    [] Kind(t) \in {"int", "uint"} -> Itoa(v)
    [] Kind(t) = "bool" -> IF v THEN "true" ELSE "false"
    [] Kind(t) = "struct" -> "{" \o SprintFields(t, v, 1) \o "}"

SprintFields(t, v, i) ==
  IF i > NumField(t) THEN ""
  ELSE (IF i > 1 THEN " " ELSE "") \o Sprint(Fields(t)[i].Type, v[i]) \o SprintFields(t, v, i + 1)

-----------------------------------------------------------------------------
(* The result types.                                                       *)

AddType == "ADD"

DelType == "DEL"

ModType == "MOD"

Change(old, new, val, type) == <<"Change", [OldVal |-> old, NewVal |-> new, Val |-> val, Type |-> type]>>

EmptyMap == <<>>

Put(m, k, d) == (k :> d) @@ m

Diff(m) == <<"Diff", m>>

Changes(m) == <<"map[string]Change", m>>

HasChange(d) == d # NilVal /\ DOMAIN ValOf(d) # {}

-----------------------------------------------------------------------------
(* The engine.                                                             *)

IsIgnored(ex, field) == \E i \in 1..Len(ex) : ex[i] = field

isExported(fieldName) ==
  IF fieldName = "" THEN FALSE
  ELSE LET firstLetter == FirstLetter(fieldName)
       IN  firstLetter # ToLower(firstLetter)

isFullyNonExportedStruct(t) ==
  IF Kind(t) # "struct" THEN FALSE
  ELSE \A i \in 1..NumField(t) : ~isExported(Fields(t)[i].Name)

isEqual(t, vx, vy) == Sprint(t, vx) = Sprint(t, vy)

Abs(n) == IF n < 0 THEN 0 - n ELSE n

RECURSIVE compareValues(_, _, _, _), compareStructs(_, _, _, _), compareSlices(_, _, _, _)
RECURSIVE structLoop(_, _, _, _, _, _), modLoop(_, _, _, _, _, _, _)

(* Mutant of compareValues' pointer case: the addresses are compared.      *)
comparePtr_byAddress(ex, t, fx, fy) ==
  IF fx = <<>> THEN
    IF fy = <<>> THEN NilVal
    ELSE Change(NilVal, Iface(Elem(t), fy[2]), NilVal, ModType)
  ELSE IF fy = <<>> THEN Change(Iface(Elem(t), fx[2]), NilVal, NilVal, ModType)
  ELSE IF fx # fy THEN Change(Iface(Elem(t), fx[2]), Iface(Elem(t), fy[2]), NilVal, ModType)
  ELSE NilVal

comparePtr(ex, t, fx, fy) ==
  IF fx = <<>> THEN
    IF fy = <<>> THEN NilVal
    ELSE Change(NilVal, Iface(Elem(t), fy[2]), NilVal, ModType)
  ELSE IF fy = <<>> THEN Change(Iface(Elem(t), fx[2]), NilVal, NilVal, ModType)
  ELSE compareValues(ex, Elem(t), fx[2], fy[2])

compareInt(ix, iy) ==
  IF ix # iy THEN Change(Iface("int64", ix), Iface("int64", iy), NilVal, ModType) ELSE NilVal

compareUint(uix, uiy) ==
  IF uix # uiy THEN Change(Iface("uint64", uix), Iface("uint64", uiy), NilVal, ModType) ELSE NilVal

(* Mutants of compareValues' float case: the one-sided tests.              *)
compareFloat_oneSidedLess(flx, fly) ==
  IF (flx - fly) < Tolerance THEN Change(Iface("float64", flx), Iface("float64", fly), NilVal, ModType) ELSE NilVal

compareFloat_oneSided(flx, fly) ==
  IF (flx - fly) > Tolerance THEN Change(Iface("float64", flx), Iface("float64", fly), NilVal, ModType) ELSE NilVal

compareFloat(flx, fly) ==
  IF Abs(flx - fly) > Tolerance THEN Change(Iface("float64", flx), Iface("float64", fly), NilVal, ModType) ELSE NilVal

compareString(sx, sy) ==
  IF sx # sy THEN Change(Iface("string", sx), Iface("string", sy), NilVal, ModType) ELSE NilVal

compareValues(ex, t, fx, fy) ==
  CASE Kind(t) = "struct" -> compareStructs(ex, t, fx, fy)
    [] Kind(t) = "slice" -> compareSlices(ex, t, fx, fy)
    [] Kind(t) = "map" -> NilVal
    [] Kind(t) = "ptr" -> comparePtr(ex, t, fx, fy)
    [] Kind(t) = "int" -> compareInt(fx, fy)
    [] Kind(t) = "uint" -> compareUint(fx, fy)
    [] Kind(t) = "float" -> compareFloat(fx, fy)
    [] Kind(t) = "string" -> compareString(fx, fy)
    [] Kind(t) = "complex" -> NilVal
    [] OTHER -> NilVal

(* Mutant of the field loop: the exclusion list is not consulted.          *)
structLoop_noExclusion(ex, tx, fx, ty_fy, i, d) ==
  IF i > NumField(tx) THEN d
  ELSE LET typ == Fields(tx)[i]
           newFx == fx[i]
       IN  IF ~isExported(typ.Name)
           THEN structLoop(ex, tx, fx, ty_fy, i + 1, d)
           ELSE LET newFy == FieldByName(ty_fy[1], ty_fy[2], typ.Name)
                    r == compareValues(ex, typ.Type, newFx, newFy)
                IN  structLoop(ex, tx, fx, ty_fy, i + 1, IF r # NilVal THEN Put(d, typ.Name, r) ELSE d)

(* The loop over the fields i..NumField of a struct, shared by Compute and *)
(* compareStructs: tx is the type of fx, ty the type of fy.                *)
structLoop(ex, tx, fx, ty_fy, i, d) ==
  IF i > NumField(tx) THEN d
  ELSE LET typ == Fields(tx)[i]
           newFx == fx[i]
       IN  IF ~isExported(typ.Name) \/ IsIgnored(ex, typ.Name)
           THEN structLoop(ex, tx, fx, ty_fy, i + 1, d)
           ELSE LET newFy == FieldByName(ty_fy[1], ty_fy[2], typ.Name)
                    r == compareValues(ex, typ.Type, newFx, newFy)
                IN  structLoop(ex, tx, fx, ty_fy, i + 1, IF r # NilVal THEN Put(d, typ.Name, r) ELSE d)

(* Mutants of compareStructs: the nested Diff is returned even when empty; *)
(* the nested Diff is wrapped in a Modified change entry.                  *)
compareStructs_keepEmpty(ex, t, fx, fy) ==
  IF isFullyNonExportedStruct(t) THEN
    IF ~isEqual(t, fx, fy) THEN Change(Iface(t, fx), Iface(t, fy), NilVal, ModType)
    ELSE NilVal
  ELSE Diff(structLoop(ex, t, fx, Iface(t, fy), 1, EmptyMap))

compareStructs_wrapped(ex, t, fx, fy) ==
  IF isFullyNonExportedStruct(t) THEN
    IF ~isEqual(t, fx, fy) THEN Change(Iface(t, fx), Iface(t, fy), NilVal, ModType)
    ELSE NilVal
  ELSE LET d == structLoop(ex, t, fx, Iface(t, fy), 1, EmptyMap)
       IN  IF DOMAIN d # {} THEN Change(NilVal, NilVal, Diff(d), ModType) ELSE NilVal

compareStructs(ex, t, fx, fy) ==
  IF isFullyNonExportedStruct(t) THEN
    IF ~isEqual(t, fx, fy) THEN Change(Iface(t, fx), Iface(t, fy), NilVal, ModType)
    ELSE NilVal
  ELSE LET d == structLoop(ex, t, fx, Iface(t, fy), 1, EmptyMap)
       IN  IF DOMAIN d # {} THEN Diff(d) ELSE NilVal

RECURSIVE addLoop(_, _, _, _, _), delLoop(_, _, _, _, _)

(* for i := lo; i < hi; i++ { changes[Itoa(i)] = Change{NewVal: fy.Index(i), Type: AddType} } *)
addLoop(changes, t, fy, i, hi) ==
  IF i >= hi THEN changes
  ELSE addLoop(Put(changes, Itoa(i), Change(NilVal, Iface(Elem(t), fy[i + 1]), NilVal, AddType)), t, fy, i + 1, hi)

(* for i := lo; i < hi; i++ { changes[Itoa(i)] = Change{OldVal: fx.Index(i), Type: DelType} } *)
delLoop(changes, t, fx, i, hi) ==
  IF i >= hi THEN changes
  ELSE delLoop(Put(changes, Itoa(i), Change(Iface(Elem(t), fx[i + 1]), NilVal, NilVal, DelType)), t, fx, i + 1, hi)

(* for i := 0; i < maxLen; i++ { if d := compareValues(...); d != nil { changes[Itoa(i)] = Change{Val: d, Type: ModType} } } *)
modLoop(ex, changes, t, fx, fy, i, maxLen) ==
  IF i >= maxLen THEN changes
  ELSE LET d == compareValues(ex, Elem(t), fx[i + 1], fy[i + 1])
       IN  modLoop(ex, IF d # NilVal THEN Put(changes, Itoa(i), Change(NilVal, NilVal, d, ModType)) ELSE changes, t, fx, fy, i + 1, maxLen)

(* Mutant of compareSlices: the shorter length bounds the whole walk, the  *)
(* tail of the longer sequence is dropped.                                 *)
sliceChanges_noTail(ex, t, fx, fy) ==
  LET xLen == Len(fx)
      yLen == Len(fy)
  IN  IF xLen = 0 THEN addLoop(EmptyMap, t, fy, 0, yLen)
      ELSE IF yLen = 0 THEN delLoop(EmptyMap, t, fx, 0, xLen)
      ELSE IF xLen > yLen THEN modLoop(ex, EmptyMap, t, fx, fy, 0, yLen)
      ELSE modLoop(ex, EmptyMap, t, fx, fy, 0, xLen)

sliceChanges(ex, t, fx, fy) ==
  LET xLen == Len(fx)
      yLen == Len(fy)
  IN  IF xLen = 0 THEN addLoop(EmptyMap, t, fy, 0, yLen)
      ELSE IF yLen = 0 THEN delLoop(EmptyMap, t, fx, 0, xLen)
      ELSE IF xLen > yLen THEN modLoop(ex, delLoop(EmptyMap, t, fx, yLen, xLen), t, fx, fy, 0, yLen)
      ELSE IF xLen < yLen THEN modLoop(ex, addLoop(EmptyMap, t, fy, xLen, yLen), t, fx, fy, 0, xLen)
      ELSE modLoop(ex, EmptyMap, t, fx, fy, 0, xLen)

compareSlices(ex, t, fx, fy) ==
  LET changes == sliceChanges(ex, t, fx, fy)
  IN  IF DOMAIN changes # {} THEN Changes(changes) ELSE NilVal

ErrNone == "nil"

ErrType == "input objects do not share the same type"

ErrNotStruct == "input values are not struct"

(* reflect.Value.Type on the zero Value panics.                            *)
Panic == "panic: reflect: call of reflect.Value.Type on zero Value"

EngineCompute(ex, ix, iy) ==
  IF ix = NilVal \/ iy = NilVal THEN [delta |-> NilVal, err |-> Panic]
  ELSE IF ~AssignableTo(TypeOf(ix), TypeOf(iy)) THEN [delta |-> NilVal, err |-> ErrType]
  ELSE IF Kind(TypeOf(ix)) # "struct" THEN [delta |-> NilVal, err |-> ErrNotStruct]
  ELSE [delta |-> Diff(structLoop(ex, TypeOf(ix), ValOf(ix), iy, 1, EmptyMap)), err |-> ErrNone]

-----------------------------------------------------------------------------
(* The state machine: a caller holds two values and calls Compute once.    *)

Init ==
  /\ pc = "ready"
  /\ e = <<>>
  /\ x \in Inputs
  /\ y \in Inputs
  /\ delta = NilVal
  /\ err = ErrNone

(* diff.Compute(x, y): Engine{}.Compute(x, y)                              *)
Compute ==
  /\ pc = "ready"
  /\ LET r == EngineCompute(<<>>, x, y)
     IN  /\ delta' = r.delta
         /\ err' = r.err
  /\ e' = <<>>
  /\ pc' = "done"
  /\ UNCHANGED <<x, y>>

(* Engine{ExcludeFieldList: ex}.Compute(x, y)                              *)
Engine_Compute ==
  /\ pc = "ready"
  /\ \E ex \in ExcludeLists \ {<<>>} :
       /\ e' = ex
       /\ LET r == EngineCompute(ex, x, y)
          IN  /\ delta' = r.delta
              /\ err' = r.err
  /\ pc' = "done"
  /\ UNCHANGED <<x, y>>

Next == Compute \/ Engine_Compute

Spec == Init /\ [][Next]_vars

-----------------------------------------------------------------------------
(* Vocabulary of the properties.                                           *)

Done == pc = "done"

Ok == pc = "done" /\ err = ErrNone

Get(d, k) == IF d # NilVal /\ k \in DOMAIN ValOf(d) THEN ValOf(d)[k] ELSE NilVal

Entry(k) == Get(delta, k)

Min(a, b) == IF a < b THEN a ELSE b

Max(a, b) == IF a < b THEN b ELSE a

(* A public field name starts with an upper-case letter.                   *)
Public(name) == \E i \in 1..Len(Upper) : FirstLetter(name) = Upper[i]

(* The name is in the engine's exclusion list.                             *)
Excluded(name) == name \in {e[i] : i \in 1..Len(e)}

(* A record type that exposes no public field.                             *)
NoPublicField(t) == Kind(t) = "struct" /\ \A i \in 1..NumField(t) : ~Public(Fields(t)[i].Name)

(* Field i of struct type t is neither hidden nor excluded.                *)
Compared(t, i) == Public(Fields(t)[i].Name) /\ ~Excluded(Fields(t)[i].Name)

(* Both inputs are values of the struct type t (and the call returned).    *)
Both(t) == Ok /\ TypeOf(x) = t /\ TypeOf(y) = t

-----------------------------------------------------------------------------
(* C1: Compute fails exactly when the input is not comparable: differing   *)
(* types give the type-mismatch error, the same non-struct type gives the  *)
(* not-a-struct error, in both cases with a nil Diff, and two values of    *)
(* the same struct type give no error.  (Stated for non-nil inputs.)       *)
C1_ErrorContract ==
  (Done /\ x # NilVal /\ y # NilVal) =>
    /\ (TypeOf(x) # TypeOf(y) => err = ErrType /\ delta = NilVal)
    /\ (TypeOf(x) = TypeOf(y) /\ Kind(TypeOf(x)) # "struct" => err = ErrNotStruct /\ delta = NilVal)
    /\ (TypeOf(x) = TypeOf(y) /\ Kind(TypeOf(x)) = "struct" => err = ErrNone)

-----------------------------------------------------------------------------
(* C2: reflexivity.  Compute(a, a) on a struct value a returns a nil error *)
(* and an empty, non-nil Diff, whatever the exclusion list.                *)
C2_Reflexive ==
  (Done /\ x = y /\ x # NilVal /\ Kind(TypeOf(x)) = "struct") =>
    /\ err = ErrNone
    /\ delta # NilVal
    /\ DOMAIN ValOf(delta) = {}
    /\ ~HasChange(delta)

C2_Witness ==
  /\ Done /\ x = y /\ TypeOf(x) = "Ptrs" /\ ValOf(x)[1] # <<>> /\ e # <<>>
  /\ ~HasChange(delta)

-----------------------------------------------------------------------------
(* What "the subtree of x differs from the subtree of y" means.            *)

RECURSIVE Pointees(_, _)

(* The value with every pointer replaced by what it points to: pointers    *)
(* are compared by pointee, never by address.                              *)
Pointees(t, v) ==
  CASE Kind(t) = "struct" -> [i \in 1..NumField(t) |-> Pointees(Fields(t)[i].Type, v[i])]
    [] Kind(t) = "slice" -> [i \in 1..Len(v) |-> Pointees(Elem(t), v[i])]
    [] Kind(t) = "ptr" -> IF v = <<>> THEN <<>> ELSE <<Pointees(Elem(t), v[2])>>
    [] OTHER -> v

Differs(t, vx, vy) == Pointees(t, vx) # Pointees(t, vy)

RECURSIVE Reported(_, _, _)

(* The two values differ somewhere the traversal looks: an int, uint or    *)
(* string that is not equal, a float further apart than Tolerance, a       *)
(* pointer nil on one side only, sequences of different lengths, a record  *)
(* without public fields whose string renderings differ; reached through   *)
(* exported, non-excluded fields, common indexes and non-nil pointers.     *)
Reported(t, vx, vy) ==
  CASE Kind(t) \in {"int", "uint", "string"} -> vx # vy
    [] Kind(t) = "float" -> vx - vy > Tolerance \/ vy - vx > Tolerance
    [] Kind(t) = "ptr" -> IF vx = <<>> \/ vy = <<>> THEN vx # vy ELSE Reported(Elem(t), vx[2], vy[2])
    [] Kind(t) = "slice" -> Len(vx) # Len(vy) \/ \E i \in 1..Len(vx) : Reported(Elem(t), vx[i], vy[i])
    [] Kind(t) = "struct" ->
         IF NoPublicField(t)
         THEN Sprint(t, vx) # Sprint(t, vy)
         ELSE \E i \in 1..NumField(t) : Compared(t, i) /\ Reported(Fields(t)[i].Type, vx[i], vy[i])
    [] OTHER -> FALSE

(* The node of a sequence's index map at index i (0-based): the nested     *)
(* payload of a Modified entry, the entry itself for Added and Removed.    *)
IndexNode(d, i) ==
  LET c == Get(d, Itoa(i))
  IN  IF c = NilVal THEN NilVal
      ELSE IF ValOf(c).Type = ModType THEN ValOf(c).Val ELSE c

RECURSIVE NodeIffDiffers(_, _, _, _), NodeOnlyIfDiffers(_, _, _, _), NoEmptyNode(_)

(* At this path and every path below it: a node exists iff the subtrees    *)
(* differ.  d is the node at the path, NilVal when there is none.          *)
NodeIffDiffers(t, vx, vy, d) ==
  /\ (d # NilVal) <=> Differs(t, vx, vy)
  /\ CASE Kind(t) = "struct" /\ ~NoPublicField(t) ->
            \A i \in 1..NumField(t) : NodeIffDiffers(Fields(t)[i].Type, vx[i], vy[i], Get(d, Fields(t)[i].Name))
       [] Kind(t) = "slice" ->
            \A i \in 1..Min(Len(vx), Len(vy)) : NodeIffDiffers(Elem(t), vx[i], vy[i], IndexNode(d, i - 1))
       [] Kind(t) = "ptr" /\ vx # <<>> /\ vy # <<>> -> NodeIffDiffers(Elem(t), vx[2], vy[2], d)
       [] OTHER -> TRUE

(* At this path and every path below it: a node exists only if the         *)
(* subtrees differ, and exactly when they differ where the traversal looks.*)
NodeOnlyIfDiffers(t, vx, vy, d) ==
  /\ (d # NilVal) => Differs(t, vx, vy)
  /\ (d # NilVal) <=> Reported(t, vx, vy)
  /\ CASE Kind(t) = "struct" /\ ~NoPublicField(t) ->
            \A i \in 1..NumField(t) :
              /\ Get(d, Fields(t)[i].Name) # NilVal => Compared(t, i)
              /\ Compared(t, i) => NodeOnlyIfDiffers(Fields(t)[i].Type, vx[i], vy[i], Get(d, Fields(t)[i].Name))
       [] Kind(t) = "slice" ->
            \A i \in 1..Min(Len(vx), Len(vy)) : NodeOnlyIfDiffers(Elem(t), vx[i], vy[i], IndexNode(d, i - 1))
       [] Kind(t) = "ptr" /\ vx # <<>> /\ vy # <<>> -> NodeOnlyIfDiffers(Elem(t), vx[2], vy[2], d)
       [] OTHER -> TRUE

(* No Diff and no index map in d is empty.                                 *)
NoEmptyNode(d) ==
  CASE d = NilVal -> TRUE
    [] TypeOf(d) \in {"Diff", "map[string]Change"} ->
         /\ DOMAIN ValOf(d) # {}
         /\ \A k \in DOMAIN ValOf(d) : NoEmptyNode(ValOf(d)[k])
    [] TypeOf(d) = "Change" -> NoEmptyNode(ValOf(d).Val)
    [] OTHER -> TRUE

-----------------------------------------------------------------------------
(* The entry expected at index i (0-based) of the index map of a sequence  *)
(* field, old of length n against new of length m.                         *)
ExpectedAt(t, old, new, i) ==
  IF i < Min(Len(old), Len(new))
  THEN Change(NilVal, NilVal, compareValues(e, Elem(t), old[i + 1], new[i + 1]), ModType)
  ELSE IF Len(old) > Len(new)
  THEN Change(Iface(Elem(t), old[i + 1]), NilVal, NilVal, DelType)
  ELSE Change(NilVal, Iface(Elem(t), new[i + 1]), NilVal, AddType)

(* The indexes that carry an entry: the common indexes whose elements      *)
(* compare as different, and every index of the longer tail.               *)
ExpectedIndexes(t, old, new) ==
  {i \in 0..(Max(Len(old), Len(new)) - 1) :
     \/ i >= Min(Len(old), Len(new))
     \/ compareValues(e, Elem(t), old[i + 1], new[i + 1]) # NilVal}

Positional(t, old, new, d) ==
  LET K == ExpectedIndexes(t, old, new)
  IN  /\ K = {} => d = NilVal
      /\ K # {} =>
           /\ d # NilVal
           /\ TypeOf(d) = "map[string]Change"
           /\ DOMAIN ValOf(d) = {Itoa(i) : i \in K}
           /\ \A i \in K : ValOf(d)[Itoa(i)] = ExpectedAt(t, old, new, i)
      /\ Kind(Elem(t)) = "int" =>
           \A i \in 0..(Min(Len(old), Len(new)) - 1) :
             IF old[i + 1] = new[i + 1] THEN Get(d, Itoa(i)) = NilVal
             ELSE Get(d, Itoa(i)) = Change(NilVal, NilVal, Change(Iface("int64", old[i + 1]), Iface("int64", new[i + 1]), NilVal, ModType), ModType)

(* C4: sequence comparison is positional.  The entry of a compared         *)
(* sequence field is keyed by stringified index and holds exactly: a       *)
(* Modified entry wrapping the element comparison at every common index    *)
(* whose elements differ, a Removed entry with old[i] for i in [m, n), an  *)
(* Added entry with new[i] for i in [n, m); nothing when there is none.    *)
C4_Positional ==
  Ok => \A i \in 1..NumField(TypeOf(x)) :
          (Kind(Fields(TypeOf(x))[i].Type) = "slice" /\ Compared(TypeOf(x), i)) =>
            Positional(Fields(TypeOf(x))[i].Type, ValOf(x)[i], ValOf(y)[i], Entry(Fields(TypeOf(x))[i].Name))

(* old = [1, 0], new = [0]: index 0 is Modified, index 1 is Removed.       *)
C4_Witness ==
  /\ Both("IntLists") /\ e = <<>>
  /\ ValOf(x)[1] = <<1, 0>> /\ ValOf(y)[1] = <<0>>
  /\ DOMAIN ValOf(Entry("IntList")) = {"0", "1"}
  /\ ValOf(Entry("IntList"))["1"] = Change(Iface("int", 0), NilVal, NilVal, DelType)

-----------------------------------------------------------------------------
(* The Diff of the differing leaf sub-fields of a record, or NilVal when   *)
(* no compared sub-field differs (records whose fields are strings or      *)
(* integers).                                                              *)
LeafChange(t, old, new) ==
  CASE Kind(t) = "string" -> Change(Iface("string", old), Iface("string", new), NilVal, ModType)
    [] Kind(t) = "int" -> Change(Iface("int64", old), Iface("int64", new), NilVal, ModType)
    [] Kind(t) = "uint" -> Change(Iface("uint64", old), Iface("uint64", new), NilVal, ModType)

NestedDiff(t, old, new) ==
  LET J == {j \in 1..NumField(t) : Compared(t, j) /\ old[j] # new[j]}
  IN  IF J = {} THEN NilVal
      ELSE Diff([k \in {Fields(t)[j].Name : j \in J} |->
                  LET j == FieldIndex(t, k) IN LeafChange(Fields(t)[j].Type, old[j], new[j])])

IsWrappedDiff(d) ==
  /\ TypeOf(d) = "Change"
  /\ ValOf(d).Type = ModType
  /\ ValOf(d).OldVal = NilVal
  /\ ValOf(d).NewVal = NilVal
  /\ ValOf(d).Val # NilVal
  /\ TypeOf(ValOf(d).Val) = "Diff"

(* A field whose type is a record with a public field.                     *)
RecordField(t, i) == Kind(Fields(t)[i].Type) = "struct" /\ ~NoPublicField(Fields(t)[i].Type)

(* C5, as stated: the entry stored for a nested record field that differs  *)
(* is a Modified change entry whose nested-value payload is the nested     *)
(* Diff, without old or new value.                                         *)
C5_WrappedInChange ==
  Ok => \A i \in 1..NumField(TypeOf(x)) :
          (RecordField(TypeOf(x), i) /\ Entry(Fields(TypeOf(x))[i].Name) # NilVal) =>
            IsWrappedDiff(Entry(Fields(TypeOf(x))[i].Name))

(* C5, amended: the entry stored for a nested record field that differs is *)
(* the bare nested Diff of its differing sub-fields, not a change entry;   *)
(* there is no entry when no compared sub-field differs.                   *)
C5_BareNestedDiff ==
  Ok => \A i \in 1..NumField(TypeOf(x)) :
          (RecordField(TypeOf(x), i) /\ Compared(TypeOf(x), i)) =>
            Entry(Fields(TypeOf(x))[i].Name) = NestedDiff(Fields(TypeOf(x))[i].Type, ValOf(x)[i], ValOf(y)[i])

C5_Witness ==
  /\ Both("Nest") /\ e = <<>>
  /\ ValOf(x)[1] = <<"a">> /\ ValOf(y)[1] = <<"">>
  /\ Entry("Bar") = Diff("StringVal" :> Change(Iface("string", "a"), Iface("string", ""), NilVal, ModType))

-----------------------------------------------------------------------------
RECURSIVE FieldKeys(_)

(* Every record-field key of a result, at every nesting level (the keys of *)
(* index maps are indexes, not field names).                               *)
FieldKeys(d) ==
  CASE d = NilVal -> {}
    [] TypeOf(d) = "Diff" -> DOMAIN ValOf(d) \cup UNION {FieldKeys(ValOf(d)[k]) : k \in DOMAIN ValOf(d)}
    [] TypeOf(d) = "map[string]Change" -> UNION {FieldKeys(ValOf(d)[k]) : k \in DOMAIN ValOf(d)}
    [] TypeOf(d) = "Change" -> FieldKeys(ValOf(d).Val)
    [] OTHER -> {}

RECURSIVE Erase(_, _, _)

(* The value with the fields named in e blanked at every nesting level;    *)
(* with inHidden false, the fields of a record without public fields are   *)
(* left as they are.                                                       *)
Erase(t, v, inHidden) ==
  CASE Kind(t) = "struct" ->
         IF NoPublicField(t) /\ ~inHidden THEN v
         ELSE [i \in 1..NumField(t) |-> IF Excluded(Fields(t)[i].Name) THEN 0 ELSE Erase(Fields(t)[i].Type, v[i], inHidden)]
    [] Kind(t) = "slice" -> [i \in 1..Len(v) |-> Erase(Elem(t), v[i], inHidden)]
    [] Kind(t) = "ptr" -> IF v = <<>> THEN <<>> ELSE <<v[1], Erase(Elem(t), v[2], inHidden)>>
    [] OTHER -> v

NoExcludedKey == \A k \in FieldKeys(delta) : ~Excluded(k)

(* C6, as stated: no record-field key of the result is an excluded name,   *)
(* and inputs that differ only in fields with excluded names give an empty *)
(* Diff.                                                                   *)
C6_ExcludedEverywhere ==
  Ok => /\ NoExcludedKey
        /\ Erase(TypeOf(x), ValOf(x), TRUE) = Erase(TypeOf(x), ValOf(y), TRUE) => ~HasChange(delta)

(* C6, amended: no record-field key of the result is an excluded name, and *)
(* inputs that differ only in excluded fields of records that have a       *)
(* public field give an empty Diff (a record without public fields is      *)
(* compared by its string rendering, excluded names included).             *)
C6_ExcludedInVisibleRecords ==
  Ok => /\ NoExcludedKey
        /\ Erase(TypeOf(x), ValOf(x), FALSE) = Erase(TypeOf(x), ValOf(y), FALSE) => ~HasChange(delta)

(* StringVal is excluded; the inputs differ in Bar.StringVal only.         *)
C6_Witness ==
  /\ Both("Nest") /\ e = <<"StringVal">>
  /\ ValOf(x)[1] # ValOf(y)[1] /\ ValOf(x)[2] = ValOf(y)[2]
  /\ ~HasChange(delta)

-----------------------------------------------------------------------------
HiddenEntry(t, old, new) ==
  IF Sprint(t, old) # Sprint(t, new) THEN Change(Iface(t, old), Iface(t, new), NilVal, ModType) ELSE NilVal

(* C7: two values of a record type without public fields, given to Compute *)
(* or held by a nested field, give exactly one Modified entry with both    *)
(* full values when their string renderings differ, and no entry when the  *)
(* renderings are equal.                                                   *)
C7_HiddenFallback ==
  Ok => /\ NoPublicField(TypeOf(x)) =>
             IF Sprint(TypeOf(x), ValOf(x)) # Sprint(TypeOf(x), ValOf(y))
             THEN /\ Cardinality(DOMAIN ValOf(delta)) = 1
                  /\ \A k \in DOMAIN ValOf(delta) : ValOf(delta)[k] = Change(x, y, NilVal, ModType)
             ELSE ~HasChange(delta)
        /\ \A i \in 1..NumField(TypeOf(x)) :
             (NoPublicField(Fields(TypeOf(x))[i].Type) /\ Compared(TypeOf(x), i)) =>
               Entry(Fields(TypeOf(x))[i].Name) = HiddenEntry(Fields(TypeOf(x))[i].Type, ValOf(x)[i], ValOf(y)[i])

-----------------------------------------------------------------------------
(* C8: a compared field of kind int, uint, bool or string has an entry iff *)
(* old # new, and the entry is Modified with the old and the new value.    *)
C8_BasicExact ==
  Ok => \A i \in 1..NumField(TypeOf(x)) :
          (Kind(Fields(TypeOf(x))[i].Type) \in {"int", "uint", "bool", "string"} /\ Compared(TypeOf(x), i)) =>
            LET d == Entry(Fields(TypeOf(x))[i].Name)
            IN  /\ (d # NilVal) <=> (ValOf(x)[i] # ValOf(y)[i])
                /\ d # NilVal =>
                     /\ TypeOf(d) = "Change"
                     /\ ValOf(d).Type = ModType
                     /\ ValOf(d).OldVal # NilVal /\ ValOf(ValOf(d).OldVal) = ValOf(x)[i]
                     /\ ValOf(d).NewVal # NilVal /\ ValOf(ValOf(d).NewVal) = ValOf(y)[i]

-----------------------------------------------------------------------------
PointerCases(t, old, new, d) ==
  /\ (old = <<>> /\ new = <<>>) => d = NilVal
  /\ (old = <<>> /\ new # <<>>) => d = Change(NilVal, Iface(Elem(t), new[2]), NilVal, ModType)
  /\ (old # <<>> /\ new = <<>>) => d = Change(Iface(Elem(t), old[2]), NilVal, NilVal, ModType)
  /\ (old # <<>> /\ new # <<>>) =>
       /\ d = compareValues(e, Elem(t), old[2], new[2])
       /\ old[2] = new[2] => d = NilVal
       /\ (Kind(Elem(t)) = "int" /\ old[2] # new[2]) =>
            d = Change(Iface("int64", old[2]), Iface("int64", new[2]), NilVal, ModType)

(* C9: a compared pointer field is compared by pointee: nil and nil give   *)
(* no entry; nil and non-nil give a Modified entry with the new pointee    *)
(* and no old value; non-nil and nil give a Modified entry with the old    *)
(* pointee and no new value; two non-nil pointers give the comparison of   *)
(* the pointees, so nothing when the pointees are equal.                   *)
C9_PointerCases ==
  Ok => \A i \in 1..NumField(TypeOf(x)) :
          (Kind(Fields(TypeOf(x))[i].Type) = "ptr" /\ Compared(TypeOf(x), i)) =>
            PointerCases(Fields(TypeOf(x))[i].Type, ValOf(x)[i], ValOf(y)[i], Entry(Fields(TypeOf(x))[i].Name))

(* Two distinct pointers to equal Bar values, and nil against a pointer.   *)
C9_Witness ==
  /\ Both("Ptrs") /\ e = <<>>
  /\ ValOf(x)[1] = <<1, <<"a">>>> /\ ValOf(y)[1] = <<2, <<"a">>>>
  /\ ValOf(x)[2] = <<>> /\ ValOf(y)[2] # <<>>
  /\ DOMAIN ValOf(delta) = {"IntPtr"}

-----------------------------------------------------------------------------
====
